---------------------------- MODULE Spec2Model ----------------------------
(***************************************************************************)
(* A model of twitter_bot_filter: the identifier extractor (URI_REGEX and  *)
(* get_username), the BotometerConnection object (threshold and memoized   *)
(* account_is_human), and the filter_csv run of both program variants      *)
(* (twitter_bot_filter.py and twitter_bot_filter_simple.py).               *)
(*                                                                         *)
(* Python strings are sequences of one-character strings, so that the      *)
(* regular expression can be evaluated character by character.  Python's   *)
(* None is the one-element sequence <<"None">>, which is no character      *)
(* sequence.  Scores and thresholds are in tenths: 8 stands for 0.8.       *)
(***************************************************************************)
EXTENDS Integers, Sequences, FiniteSets, TLC

VARIABLES
    \* the identifier extractor applied to one string
    uri,            \* the string handed to get_username
    username,       \* what get_username returned for it
    xpc,            \* "idle" | "ready" | "done"
    \* one BotometerConnection
    weighting,      \* BotometerConnection.__weighting
    cache,          \* the @cache of account_is_human: account_name -> verdict
    calls,          \* the account names check_account was invoked with, in order
    scores,         \* account_name -> the score check_account last returned for it
    last,           \* the last account_is_human call: its argument, threshold and result
    \* one run of the program
    variant,        \* "full" (twitter_bot_filter.py) | "simple" (..._simple.py) | "none"
    files,          \* the file system: filename -> sequence of records
    csv_url_header, \* the command line's column name
    csv_filename_out, \* the command line's output path, or NoFilename
    csv_data,       \* what read_csv_data returned (simple: the DictReader's header and rows)
    filtered_csv_data, \* what filter_csv_data returned
    filtering_successful, \* what filter_csv returned: "unset" | "True" | "False"
    i,              \* the index of the next row of the comprehension / loop
    rows,           \* the rows kept so far
    usernames,      \* per processed row: the identifier extracted from it
    verdicts,       \* per processed row: whether it was classified human
    called,         \* per processed row: whether check_account was invoked for it
    pc,             \* "idle" | "main" | "filter" | "exit"
    exit_code       \* the process's exit status once pc = "exit"

connVars == <<weighting, cache, calls, scores, last>>
extractVars == <<uri, username, xpc>>
runVars == <<variant, files, csv_url_header, csv_filename_out, csv_data,
             filtered_csv_data, filtering_successful, i, rows, usernames, verdicts,
             called, pc, exit_code>>
vars == <<extractVars, connVars, runVars>>

None == <<"None">>

---------------------------------------------------------------------------
(* Characters and the strings used as inputs.                              *)

Lower == {"a","b","c","d","e","f","g","h","i","j","k","l","m",
          "n","o","p","q","r","s","t","u","v","w","x","y","z"}
Upper == {"A","B","C","D","E","F","G","H","I","J","K","L","M",
          "N","O","P","Q","R","S","T","U","V","W","X","Y","Z"}
Digit == {"0","1","2","3","4","5","6","7","8","9"}

\* \w restricted to the ASCII alphabet of the inputs
WordChars == Lower \cup Upper \cup Digit \cup {"_"}

\* the token standing for the regular expression's "." (any character but a newline)
AnyChar == "ANY"

Min(S) == CHOOSE m \in S : \A n \in S : m <= n
Max(S) == CHOOSE m \in S : \A n \in S : m >= n

\* one element of a pattern's fixed part against one character
ElemMatches(p, c) == IF p = AnyChar THEN c # "\n" ELSE c = p

\* With the pattern's fixed part starting at position at of s: the lengths k in
\* lo..hi such that k word characters follow it and then the closing character.
MatchLens(re, s, at) ==
    LET P == Len(re.prefix) IN
    IF /\ at + P <= Len(s)
       /\ \A j \in 1..P : ElemMatches(re.prefix[j], s[at + j - 1])
    THEN {k \in re.lo..re.hi :
            /\ at + P + k <= Len(s)
            /\ \A j \in 1..k : s[at + P + j - 1] \in WordChars
            /\ s[at + P + k] = re.close}
    ELSE {}

\* re.search(s) and group(1): the leftmost position where the pattern matches,
\* the quantifier being greedy; None when there is none.
Search(re, s) ==
    LET starts == {at \in 1..Len(s) : MatchLens(re, s, at) # {}} IN
    IF starts = {} THEN None
    ELSE LET at == Min(starts)
             k == Max(MatchLens(re, s, at))
             P == Len(re.prefix)
         IN SubSeq(s, at + P, at + P + k - 1)

MaxHandleLen == 15

\* re.compile("twitter.com/(\\w{1,15})/"): the "." is not escaped
URI_REGEX ==
    [prefix |-> <<"t","w","i","t","t","e","r",AnyChar,"c","o","m","/">>,
     lo |-> 1, hi |-> MaxHandleLen, close |-> "/"]

\* get_username(uri), in filter_csv of twitter_bot_filter.py
get_username(s) == Search(URI_REGEX, s)

\* get_username_from_url(uri), in twitter_bot_filter_simple.py: the same pattern
get_username_from_url(s) == Search(URI_REGEX, s)

---------------------------------------------------------------------------
(* BotometerConnection.                                                    *)

\* 1.0 in tenths: the upper end of set_bot_cap's range
One == 10

\* self.__weighting = 0.8
DefaultWeighting == 8

\* the scores check_account may return (result.cap.english), in tenths
Scores == {5, 8, 9}

NoCall == [made |-> FALSE, account |-> None, weighting |-> DefaultWeighting,
           result |-> FALSE, fresh |-> FALSE]

\* set_bot_cap's condition, as written
CapAccepted(w) == w >= 0 \/ w <= One

\* set_bot_cap(weighting)
set_bot_cap(w) ==
    weighting' = IF CapAccepted(w) THEN w ELSE weighting

\* IsHuman with the boundary excluded
IsHumanStrict(score, w) == score < w

\* result.cap.english <= self.__weighting
IsHuman(score, w) == score <= w

\* CacheHit without the @cache decorator
NeverCached(account_name) == FALSE

\* @cache: whether a result is stored for this argument
CacheHit(account_name) == account_name \in DOMAIN cache

\* self.__bom.check_account(account_name) returning score s
check_account(account_name, s) ==
    /\ calls' = Append(calls, account_name)
    /\ scores' = (account_name :> s) @@ scores

\* account_is_human(account_name) returning result
account_is_human(account_name, result) ==
    \/ /\ CacheHit(account_name)
       /\ result = cache[account_name]
       /\ last' = [made |-> TRUE, account |-> account_name, weighting |-> weighting,
                   result |-> result, fresh |-> FALSE]
       /\ UNCHANGED <<cache, calls, scores>>
    \/ /\ ~CacheHit(account_name)
       /\ \E s \in Scores :
            /\ check_account(account_name, s)
            /\ result = IsHuman(s, weighting)
       /\ cache' = (account_name :> result) @@ cache
       /\ last' = [made |-> TRUE, account |-> account_name, weighting |-> weighting,
                   result |-> result, fresh |-> TRUE]

---------------------------------------------------------------------------
(* CSV data.                                                               *)

NoFilename == "None"
InFile == "in.csv"
OutFile == "out.csv"

\* read_csv_data's None, as the dataset whose header is None
NoneCsvData == [fieldnames |-> None, data |-> <<>>]

\* csv.DictReader: the first record is the header, every other record a dict
\* from the header's names to the record's values by position
DictReader(file) ==
    IF file = <<>> THEN NoneCsvData
    ELSE LET header == file[1] IN
         [fieldnames |-> header,
          data |-> [r \in 1..(Len(file) - 1) |->
                      [f \in {header[j] : j \in 1..Len(header)} |->
                          file[r + 1][CHOOSE j \in 1..Len(header) : header[j] = f]]]]

\* read_csv_data without the header check: a missing header read as an empty one
read_csv_data_unchecked(file) ==
    LET reader == DictReader(file) IN
    [fieldnames |-> IF reader.fieldnames = None THEN <<>> ELSE reader.fieldnames,
     data |-> reader.data]

\* read_csv_data(csv_filename_in)
read_csv_data(file) ==
    LET reader == DictReader(file) IN
    IF reader.fieldnames = None THEN NoneCsvData
    ELSE [fieldnames |-> reader.fieldnames, data |-> reader.data]

\* csv.DictWriter(fieldnames).writerows(data): one record per dict, its values
\* in the order of fieldnames; no header record is written
writerows(fieldnames, data) ==
    [r \in 1..Len(data) |-> [j \in 1..Len(fieldnames) |-> data[r][fieldnames[j]]]]

\* write_csv_data(csv_data, csv_filename_out)
write_csv_data(data, filename) ==
    files' = (filename :> writerows(data.fieldnames, data.data)) @@ files

\* KeepRow putting a kept row in front
KeepRowInFront(acc, row, keep) == IF keep THEN <<row>> \o acc ELSE acc

\* one step of filter_csv_data's comprehension: row kept if filter_func(row)
KeepRow(acc, row, keep) == IF keep THEN Append(acc, row) ELSE acc

---------------------------------------------------------------------------
(* The extractor on its own: one string in, one result out.                *)

Dom == <<"t","w","i","t","t","e","r",".","c","o","m","/">>
DomX == <<"t","w","i","t","t","e","r","X","c","o","m","/">>
DomCo == <<"t","w","i","t","t","e","r",".","c","o","/">>
DomCap == <<"T","w","i","t","t","e","r",".","c","o","m","/">>
DomNl == <<"t","w","i","t","t","e","r","\n","c","o","m","/">>

Alice123 == <<"a","l","i","c","e","1","2","3">>
Carol == <<"c","a","r","o","l">>
Bob == <<"b","o","b">>
Long15 == <<"a","b","c","d","e","f","g","h","i","j","k","l","m","n","o">>
Long16 == Long15 \o <<"p">>

Pres == {<<>>, <<"h",":","/","/">>, Dom, DomX \o <<"z","e","d","/">>}
Doms == {Dom, DomX, DomCo, DomCap, DomNl}
Handles == {<<>>, <<"a">>, <<"A","_","1">>, Alice123, Long15, Long16,
            <<"a","-","b">>}
Posts == {<<>>, <<"/">>, <<"/","s","/","1">>, <<"/">> \o Dom \o Bob \o <<"/">>}

ExtractInputs == {p \o d \o h \o q : p \in Pres, d \in Doms, h \in Handles, q \in Posts}

\* the connection as constructed; the run and the extractor not in use
ConnIdle ==
    /\ weighting = DefaultWeighting /\ cache = <<>> /\ calls = <<>> /\ scores = <<>>
    /\ last = NoCall

RunIdle ==
    /\ variant = "none" /\ files = <<>>
    /\ csv_url_header = <<>> /\ csv_filename_out = NoFilename
    /\ csv_data = NoneCsvData /\ filtered_csv_data = NoneCsvData
    /\ filtering_successful = "unset"
    /\ i = 0 /\ rows = <<>> /\ usernames = <<>> /\ verdicts = <<>> /\ called = <<>>
    /\ pc = "idle" /\ exit_code = -1

ExtractIdle == uri = <<>> /\ username = None /\ xpc = "idle"

ExtractInit ==
    /\ uri \in ExtractInputs
    /\ username = None
    /\ xpc = "ready"
    /\ ConnIdle
    /\ RunIdle

\* username = get_username(uri)
Extract ==
    /\ xpc = "ready"
    /\ username' = get_username(uri)
    /\ xpc' = "done"
    /\ UNCHANGED <<uri, connVars, runVars>>

ExtractNext == Extract

ExtractSpec == ExtractInit /\ [][ExtractNext]_vars

---------------------------------------------------------------------------
(* A BotometerConnection used through its two methods, in any order.       *)

\* the values handed to set_bot_cap, in tenths: inside [0, 1], and below and above it
ValidCaps == {0, 5, 8, 10}
CapInputs == ValidCaps \cup {-1, 11}

ConnAccounts == {Alice123, Carol}

ConnInit ==
    /\ ConnIdle
    /\ ExtractIdle
    /\ RunIdle

ConnSetBotCap ==
    /\ \E w \in CapInputs : set_bot_cap(w)
    /\ UNCHANGED <<cache, calls, scores, last, extractVars, runVars>>

ConnAccountIsHuman ==
    /\ \E account_name \in ConnAccounts, result \in BOOLEAN :
          account_is_human(account_name, result)
    /\ UNCHANGED <<weighting, extractVars, runVars>>

ConnNext == ConnSetBotCap \/ ConnAccountIsHuman

ConnSpec == ConnInit /\ [][ConnNext]_vars

\* the same, with set_bot_cap called with values of [0, 1] only
ConnSetValidCap ==
    /\ \E w \in ValidCaps : set_bot_cap(w)
    /\ UNCHANGED <<cache, calls, scores, last, extractVars, runVars>>

ConnValidNext == ConnSetValidCap \/ ConnAccountIsHuman

ConnValidSpec == ConnInit /\ [][ConnValidNext]_vars

---------------------------------------------------------------------------
(* One run of the program.                                                 *)

MaxRows == 3

\* MAX_BOTTINESS = 0.8
MAX_BOTTINESS == 8

NameCol == <<"n","a","m","e">>
UrlCol == <<"u","r","l">>
LinkCol == <<"l","i","n","k">>
Header == <<NameCol, UrlCol>>

\* the records a file may hold: a handle, no URL, a second handle, and the
\* first handle again under another name
Records ==
    { <<<<"a","l","i","c","e">>, Dom \o Alice123 \o <<"/","s","/","1">>>>,
      <<Bob, <<"n","o","t"," ","a"," ","u","r","l">>>>,
      <<Carol, <<"/","/">> \o Dom \o Carol \o <<"/">>>>,
      <<<<"d","a","v","e">>, Dom \o Alice123 \o <<"/">>>> }

RECURSIVE SeqsUpTo(_, _)
SeqsUpTo(S, n) ==
    IF n = 0 THEN {<<>>}
    ELSE LET shorter == SeqsUpTo(S, n - 1) IN
         shorter \cup {Append(q, x) : q \in shorter, x \in S}

\* an empty file (no header line), or a header and up to MaxRows records
InFiles == {<<>>} \cup {<<Header>> \o body : body \in SeqsUpTo(Records, MaxRows)}

RunInit ==
    /\ ExtractIdle
    /\ ConnIdle
    /\ variant \in {"full", "simple"}
    /\ \E file \in InFiles : files = (InFile :> file)
    /\ csv_url_header \in {UrlCol, LinkCol}
    /\ csv_filename_out \in (IF variant = "full" THEN {NoFilename, OutFile} ELSE {OutFile})
    /\ csv_data = NoneCsvData /\ filtered_csv_data = NoneCsvData
    /\ filtering_successful = "unset"
    /\ i = 0 /\ rows = <<>> /\ usernames = <<>> /\ verdicts = <<>> /\ called = <<>>
    /\ pc = "main" /\ exit_code = -1

\* twitter_bot_filter.py, filter_csv up to the call of filter_csv_data: a failed
\* load returns False, and __main__ exits with status 1
FilterCsvRead ==
    /\ pc = "main" /\ variant = "full"
    /\ csv_data' = read_csv_data(files[InFile])
    /\ IF csv_data' = NoneCsvData
       THEN /\ filtering_successful' = "False"
            /\ pc' = "exit" /\ exit_code' = 1
            /\ i' = i
       ELSE /\ pc' = "filter" /\ i' = 1
            /\ UNCHANGED <<filtering_successful, exit_code>>
    /\ UNCHANGED <<variant, files, csv_url_header, csv_filename_out, filtered_csv_data,
                   rows, usernames, verdicts, called, extractVars, connVars>>

\* filter_by_bottines(row) raising KeyError at data[csv_url_header]: the
\* exception is caught nowhere and the interpreter exits with status 1
FilterRowKeyError ==
    /\ pc = "filter" /\ variant = "full"
    /\ i <= Len(csv_data.data)
    /\ csv_url_header \notin DOMAIN csv_data.data[i]
    /\ pc' = "exit" /\ exit_code' = 1
    /\ UNCHANGED <<variant, files, csv_url_header, csv_filename_out, csv_data,
                   filtered_csv_data, filtering_successful, i, rows, usernames, verdicts,
                   called, extractVars, connVars>>

\* one row of filter_csv_data's comprehension: filter_by_bottines(row)
FilterRow ==
    /\ pc = "filter" /\ variant = "full"
    /\ i <= Len(csv_data.data)
    /\ csv_url_header \in DOMAIN csv_data.data[i]
    /\ LET row == csv_data.data[i]
           name == get_username(row[csv_url_header])
       IN \E result \in BOOLEAN :
            /\ usernames' = Append(usernames, name)
            /\ account_is_human(name, result)
            /\ rows' = KeepRow(rows, row, result)
            /\ verdicts' = Append(verdicts, result)
            /\ called' = Append(called, Len(calls') > Len(calls))
    /\ i' = i + 1
    /\ UNCHANGED <<variant, files, csv_url_header, csv_filename_out, csv_data,
                   filtered_csv_data, filtering_successful, pc, exit_code, weighting,
                   extractVars>>

\* the comprehension is exhausted: filter_csv_data returns, the result is written
\* if an output path was given, filter_csv returns True and __main__ exits with 0
FilterCsvDone ==
    /\ pc = "filter" /\ variant = "full"
    /\ i > Len(csv_data.data)
    /\ filtered_csv_data' = [fieldnames |-> csv_data.fieldnames, data |-> rows]
    /\ IF csv_filename_out # NoFilename
       THEN write_csv_data(filtered_csv_data', csv_filename_out)
       ELSE files' = files
    /\ filtering_successful' = "True"
    /\ pc' = "exit" /\ exit_code' = 0
    /\ UNCHANGED <<variant, csv_url_header, csv_filename_out, csv_data, i, rows,
                   usernames, verdicts, called, extractVars, connVars>>

\* twitter_bot_filter_simple.py: the file is opened and the header read
SimpleRead ==
    /\ pc = "main" /\ variant = "simple"
    /\ csv_data' = DictReader(files[InFile])
    /\ pc' = "filter" /\ i' = 1
    /\ UNCHANGED <<variant, files, csv_url_header, csv_filename_out, filtered_csv_data,
                   filtering_successful, rows, usernames, verdicts, called, exit_code,
                   extractVars, connVars>>

\* row[csv_url_header] raising KeyError
SimpleRowKeyError ==
    /\ pc = "filter" /\ variant = "simple"
    /\ i <= Len(csv_data.data)
    /\ csv_url_header \notin DOMAIN csv_data.data[i]
    /\ pc' = "exit" /\ exit_code' = 1
    /\ UNCHANGED <<variant, files, csv_url_header, csv_filename_out, csv_data,
                   filtered_csv_data, filtering_successful, i, rows, usernames, verdicts,
                   called, extractVars, connVars>>

\* one iteration of the loop over the reader: every row calls check_account
SimpleRow ==
    /\ pc = "filter" /\ variant = "simple"
    /\ i <= Len(csv_data.data)
    /\ csv_url_header \in DOMAIN csv_data.data[i]
    /\ LET row == csv_data.data[i]
           name == get_username_from_url(row[csv_url_header])
       IN \E s \in Scores :
            /\ usernames' = Append(usernames, name)
            /\ check_account(name, s)
            /\ rows' = (IF s <= MAX_BOTTINESS THEN Append(rows, row) ELSE rows)
            /\ verdicts' = Append(verdicts, s <= MAX_BOTTINESS)
            /\ called' = Append(called, TRUE)
    /\ i' = i + 1
    /\ UNCHANGED <<variant, files, csv_url_header, csv_filename_out, csv_data,
                   filtered_csv_data, filtering_successful, pc, exit_code, weighting,
                   cache, last, extractVars>>

\* after the loop: no header cancels the write, otherwise the kept rows are
\* written; the script ends normally either way
SimpleDone ==
    /\ pc = "filter" /\ variant = "simple"
    /\ i > Len(csv_data.data)
    /\ IF csv_data.fieldnames = None
       THEN files' = files
       ELSE files' = (csv_filename_out :> writerows(csv_data.fieldnames, rows)) @@ files
    /\ pc' = "exit" /\ exit_code' = 0
    /\ UNCHANGED <<variant, csv_url_header, csv_filename_out, csv_data,
                   filtered_csv_data, filtering_successful, i, rows, usernames, verdicts,
                   called, extractVars, connVars>>

Next ==
    \/ FilterCsvRead
    \/ FilterRowKeyError
    \/ FilterRow
    \/ FilterCsvDone
    \/ SimpleRead
    \/ SimpleRowKeyError
    \/ SimpleRow
    \/ SimpleDone

Spec == RunInit /\ [][Next]_vars


---------------------------------------------------------------------------
(* Properties.                                                             *)

\* the rows of data at the positions where the verdict is human, in order
RECURSIVE Retained(_, _)
Retained(data, vs) ==
    IF vs = <<>> THEN <<>>
    ELSE LET n == Len(vs)
             before == Retained(SubSeq(data, 1, n - 1), SubSeq(vs, 1, n - 1))
         IN IF vs[n] THEN Append(before, data[n]) ELSE before

Processed == 1..Len(verdicts)

\* the identifier extracted from processed row r
UsernameOfRow(r) == usernames[r]

\* C1: the kept rows are exactly the rows classified human, in their original
\* order, at every point of the comprehension (both variants); and what
\* filter_csv_data returns has the input's header and, as rows, that
\* subsequence of all the input's rows.
C1_FilteredIsRetainedSubsequence ==
    /\ pc \in {"filter", "exit"} =>
          rows = Retained(SubSeq(csv_data.data, 1, Len(verdicts)), verdicts)
    /\ (variant = "full" /\ filtering_successful = "True") =>
          /\ filtered_csv_data.fieldnames = files[InFile][1]
          /\ Len(verdicts) = Len(csv_data.data)
          /\ filtered_csv_data.data = Retained(csv_data.data, verdicts)

\* a finished run that kept the first and third of three rows and dropped the second
C1_Witness ==
    /\ variant = "full" /\ filtering_successful = "True"
    /\ verdicts = <<TRUE, FALSE, TRUE>>
    /\ Len(filtered_csv_data.data) = 2

\* C2: a row whose column value yields no identifier causes no check_account
\* call and is classified automated.
C2_AbsentIdentifierNotQueried ==
    \A r \in Processed :
        UsernameOfRow(r) = None => (~called[r] /\ ~verdicts[r])

\* C3: in a run of twitter_bot_filter.py, check_account is invoked once per
\* distinct identifier: no identifier is called twice, the identifiers called are
\* those of the processed rows, a row causes a call exactly when its identifier
\* has not occurred before, and rows sharing an identifier get the same verdict.
C3_OneCallPerIdentifier ==
    variant = "full" =>
        /\ \A a, b \in 1..Len(calls) : calls[a] = calls[b] => a = b
        /\ {calls[a] : a \in 1..Len(calls)} = {UsernameOfRow(r) : r \in Processed}
        /\ \A r \in Processed :
              called[r] <=> (\A q \in 1..(r - 1) : UsernameOfRow(q) # UsernameOfRow(r))
        /\ \A q, r \in Processed :
              UsernameOfRow(q) = UsernameOfRow(r) => verdicts[q] = verdicts[r]

\* two rows share a handle: the first caused the call, the second did not
C3_Witness ==
    /\ variant = "full"
    /\ \E q, r \in Processed :
          /\ q < r
          /\ UsernameOfRow(q) = UsernameOfRow(r)
          /\ UsernameOfRow(q) # None
          /\ called[q] /\ ~called[r]

\* C4: the stored threshold lies in [0, 1] in every reachable state.
C4_ThresholdInRange == weighting \in 0..One

C6_OutputIsHeaderAndRows ==
    (pc = "exit" /\ exit_code = 0 /\ csv_data.fieldnames # None
        /\ csv_filename_out # NoFilename) =>
        /\ csv_filename_out \in DOMAIN files
        /\ files[csv_filename_out] =
              <<csv_data.fieldnames>> \o writerows(csv_data.fieldnames, rows)

\* C7: in a run of twitter_bot_filter.py on a file with no header line, no
\* check_account call is ever made, no row is ever filtered, no output file is
\* written, and the run ends with the load failed, filter_csv returning False
\* and exit status 1.
C7_NoHeaderFails ==
    (variant = "full" /\ files[InFile] = <<>>) =>
        /\ calls = <<>>
        /\ verdicts = <<>>
        /\ pc # "filter"
        /\ OutFile \notin DOMAIN files
        /\ pc = "exit" =>
              /\ csv_data = NoneCsvData
              /\ filtering_successful = "False"
              /\ exit_code = 1

\* the run on an empty file has ended
C7_Witness ==
    /\ variant = "full" /\ files[InFile] = <<>>
    /\ csv_filename_out = OutFile
    /\ pc = "exit"

\* C8: a run of twitter_bot_filter.py exits with 0 exactly when the dataset
\* loaded and the configured column is one of its header names.
C8_ExitStatusReflectsColumn ==
    (variant = "full" /\ pc = "exit") =>
        (exit_code = 0 <=>
            /\ files[InFile] # <<>>
            /\ \E j \in 1..Len(files[InFile][1]) : files[InFile][1][j] = csv_url_header)

\* the documented shape: a literal "twitter.com/", 1 to 15 word characters, "/"
LiteralShape == [URI_REGEX EXCEPT !.prefix = Dom]

\* C9: the extractor returns the handle of the first occurrence of the literal
\* shape, and absent when there is none.
C9_ExtractsLiteralShape ==
    xpc = "done" => username = Search(LiteralShape, uri)

\* C10: every verdict account_is_human returns equals (the score of the account
\* <= the threshold stored at the time of the call), also for an account looked
\* up before the threshold was changed.
C10_VerdictMatchesCurrentThreshold ==
    last.made => (last.result <=> scores[last.account] <= last.weighting)

=============================================================================
